---- MODULE Spec2Model ----
(***************************************************************************)
(* Model of the two calculation engines of the credit calculator:          *)
(*   - CreditCalculatorService of src/services/etf-calculator.service.ts   *)
(*     (every monetary value rounded to the cent), here "rounded";         *)
(*   - CreditCalculatorService of src/services/credit-calculator.service.ts*)
(*     (no rounding; the one App.vue imports), here "plain";               *)
(*   - EtfCalculatorService.calculateGrowth.                               *)
(* Every method is a synchronous static function: it is an operator, and   *)
(* an action is one call of it as App.vue makes it for one scenario.       *)
(* A loop is evaluated by halves, and the value a pass leaves is bound     *)
(* through a one-element set, so that TLC computes every pass once and     *)
(* never nests the evaluation deeper than the logarithm of the passes.     *)
(*                                                                         *)
(* Numbers.  A monetary amount is an integer number of thousandths of the  *)
(* currency unit (1.00 = 1000, one cent = 10).  A percentage is an integer *)
(* number of tenths of a percent (3.5 % = 35).  A ratio that the code      *)
(* keeps unrounded (monthlyInterestRate, monthlyReturnRate) is a record    *)
(* [num, den].  A product or quotient is the floor of the exact value in   *)
(* thousandths.  round() rounds half up to the cent; as it only reads the  *)
(* floor in thousandths of its argument, every value the rounded service   *)
(* and calculateGrowth round is the exact decimal result.  The plain       *)
(* service keeps three decimals where the code keeps a double.             *)
(***************************************************************************)
EXTENDS Integers, Sequences, FiniteSets

VARIABLES
    pc,                 \* where the computation of the scenario is
    svc,                \* which CreditCalculatorService computes it
    options,            \* the scenario's CreditCalculatorOptions
    monthlyRate,        \* creditResults: monthlyRate
    result,             \* creditResults: schedule (calculateSchedule's result)
    month,              \* calculateSchedule: month, when its loop was left
    remainingBalance,   \* calculateSchedule: remainingBalance, when its loop was left
    years,              \* creditResults: yearlySchedule
    etfOptions,         \* the scenario's EtfCalculatorOptions
    schedule            \* etfResults: schedule (calculateGrowth's result)

vars == <<pc, svc, options, monthlyRate, result, month, remainingBalance,
          years, etfOptions, schedule>>

----------------------------------------------------------------------------
(* Arithmetic *)

\* floor(x * num / den), den > 0, computed without leaving 32 bits
Times(x, num, den) ==
    (x \div den) * num + ((x % den) * num) \div den

\* Math.round((value + Number.EPSILON) * 100) / 100 : half up to the cent
round(value) ==
    ((value + 5) \div 10) * 10

\* Math.max(0, value)
Max0(value) ==
    IF value > 0 THEN value ELSE 0

\* Math.ceil(month / 12)
YearOfMonth(m) ==
    (m + 11) \div 12

----------------------------------------------------------------------------
(* Inputs *)

\* loanAmount: 0, 0.004, 334.995, 1200
LoanAmounts == {0, 4, 334995, 1200000}

\* interestRate: -1.2 %, 0 %, 3.6 %
InterestRates == {-12, 0, 36}

\* initialRepayment: -0.5 %, 0 %, 0.5 %, 1 %, 1200 %
InitialRepayments == {-5, 0, 5, 10, 12000}

\* the scenario App.vue starts with: 250000 at 3.5 % with 2.0 % amortization
DefaultCalculation ==
    [loanAmount |-> 250000000, interestRate |-> 35, initialRepayment |-> 20]

LoanInputs ==
    [loanAmount : LoanAmounts, interestRate : InterestRates,
     initialRepayment : InitialRepayments] \cup {DefaultCalculation}

Services == {"rounded", "plain"}

NoOptions == [loanAmount |-> 0, interestRate |-> 0, initialRepayment |-> 0]

NoEtfOptions ==
    [initialBalance |-> 0, monthlyContribution |-> 0, annualReturnRate |-> 0,
     years |-> 0]

----------------------------------------------------------------------------
(* CreditCalculatorService, rounded (etf-calculator.service.ts) *)

maxMonths == 1200

\* how many times the model is prepared to run the body of the while loop
MaxIterations == 1300

\* the monthly rate returned as it is divided, without round()
calculateMonthlyRateUnrounded(loanAmount, interestRate, initialRepayment) ==
    Times(loanAmount, interestRate + initialRepayment, 1000) \div 12

calculateMonthlyRate(loanAmount, interestRate, initialRepayment) ==
    LET annualRate == Times(loanAmount, interestRate + initialRepayment, 1000)
    IN  round(annualRate \div 12)

\* const monthlyInterestRate = interestRate / 100 / 12
monthlyInterestRate(o) ==
    [num |-> o.interestRate, den |-> 12000]

\* const interestPayment = this.round(remainingBalance * monthlyInterestRate)
InterestPayment(balance, o) ==
    round(Times(balance, monthlyInterestRate(o).num, monthlyInterestRate(o).den))

\* the repayment without the clamp of the last period
RepaymentPaymentNoClamp(balance, rate, interestPayment) ==
    round(rate - interestPayment)

\* let repaymentPayment = this.round(rate - interestPayment), then the clamp
RepaymentPayment(balance, rate, interestPayment) ==
    LET repaymentPayment == round(rate - interestPayment)
    IN  IF balance < repaymentPayment THEN balance ELSE repaymentPayment

\* the loop condition without the safety ceiling
LoopConditionNoCeiling(s) ==
    s.remainingBalance > 0

\* the loop condition with the ceiling one month short
LoopConditionOneShort(s) ==
    s.remainingBalance > 0 /\ s.month < maxMonths

\* the loop condition with the comparison of the month turned around
LoopConditionFlipped(s) ==
    s.remainingBalance > 0 /\ s.month >= maxMonths

\* the loop condition that lets a balance of 0 in
LoopConditionNonNegative(s) ==
    s.remainingBalance >= 0 /\ s.month <= maxMonths

\* while (remainingBalance > 0 && month <= maxMonths)
LoopCondition(s) ==
    s.remainingBalance > 0 /\ s.month <= maxMonths

\* the locals of calculateSchedule before the loop
LoopStart(balance) ==
    [remainingBalance |-> balance, month |-> 1, result |-> <<>>]

\* one pass of the while loop that takes the whole payment off the balance
LoopBodySubtractsTotal(s, o, rate) ==
    IF ~LoopCondition(s)
    THEN s
    ELSE LET interestPayment == InterestPayment(s.remainingBalance, o)
             repaymentPayment == RepaymentPayment(s.remainingBalance, rate, interestPayment)
             totalPayment == round(interestPayment + repaymentPayment)
             newBalance == round(s.remainingBalance - totalPayment)
         IN  [remainingBalance |-> newBalance,
              month |-> s.month + 1,
              result |-> Append(s.result,
                  [month |-> s.month,
                   year |-> YearOfMonth(s.month),
                   interestPayment |-> interestPayment,
                   repaymentPayment |-> repaymentPayment,
                   totalPayment |-> totalPayment,
                   remainingBalance |-> Max0(newBalance)])]

\* one pass of the while loop: nothing once its condition is false
LoopBody(s, o, rate) ==
    IF ~LoopCondition(s)
    THEN s
    ELSE LET interestPayment == InterestPayment(s.remainingBalance, o)
             repaymentPayment == RepaymentPayment(s.remainingBalance, rate, interestPayment)
             totalPayment == round(interestPayment + repaymentPayment)
             newBalance == round(s.remainingBalance - repaymentPayment)
         IN  [remainingBalance |-> newBalance,
              month |-> s.month + 1,
              result |-> Append(s.result,
                  [month |-> s.month,
                   year |-> YearOfMonth(s.month),
                   interestPayment |-> interestPayment,
                   repaymentPayment |-> repaymentPayment,
                   totalPayment |-> totalPayment,
                   remainingBalance |-> Max0(newBalance)])]

RECURSIVE Loop(_, _, _, _)
\* n passes of the while loop
Loop(s, o, rate, n) ==
    IF n = 0
    THEN s
    ELSE IF n = 1
         THEN LoopBody(s, o, rate)
         ELSE LET firstHalf == {Loop(s, o, rate, n \div 2)}
              IN  CHOOSE t \in {Loop(h, o, rate, n - n \div 2) : h \in firstHalf} : TRUE

\* calculateSchedule(options): the locals when the loop is left
calculateSchedule(o) ==
    LET rate == calculateMonthlyRate(o.loanAmount, o.interestRate, o.initialRepayment)
    IN  Loop(LoopStart(round(o.loanAmount)), o, rate, MaxIterations)

----------------------------------------------------------------------------
(* CreditCalculatorService, plain (credit-calculator.service.ts) *)

calculateMonthlyRatePlain(loanAmount, interestRate, initialRepayment) ==
    LET annualRate == Times(loanAmount, interestRate + initialRepayment, 1000)
    IN  annualRate \div 12

\* const interestPayment = remainingBalance * monthlyInterestRate
InterestPaymentPlain(balance, o) ==
    Times(balance, monthlyInterestRate(o).num, monthlyInterestRate(o).den)

\* let repaymentPayment = rate - interestPayment, then the clamp
RepaymentPaymentPlain(balance, rate, interestPayment) ==
    LET repaymentPayment == rate - interestPayment
    IN  IF balance < repaymentPayment THEN balance ELSE repaymentPayment

\* one pass of the while loop: nothing once its condition is false
LoopBodyPlain(s, o, rate) ==
    IF ~LoopCondition(s)
    THEN s
    ELSE LET interestPayment == InterestPaymentPlain(s.remainingBalance, o)
             repaymentPayment == RepaymentPaymentPlain(s.remainingBalance, rate, interestPayment)
             totalPayment == interestPayment + repaymentPayment
             newBalance == s.remainingBalance - repaymentPayment
         IN  [remainingBalance |-> newBalance,
              month |-> s.month + 1,
              result |-> Append(s.result,
                  [month |-> s.month,
                   year |-> YearOfMonth(s.month),
                   interestPayment |-> interestPayment,
                   repaymentPayment |-> repaymentPayment,
                   totalPayment |-> totalPayment,
                   remainingBalance |-> Max0(newBalance)])]

RECURSIVE LoopPlain(_, _, _, _)
\* n passes of the while loop
LoopPlain(s, o, rate, n) ==
    IF n = 0
    THEN s
    ELSE IF n = 1
         THEN LoopBodyPlain(s, o, rate)
         ELSE LET firstHalf == {LoopPlain(s, o, rate, n \div 2)}
              IN  CHOOSE t \in {LoopPlain(h, o, rate, n - n \div 2) : h \in firstHalf} : TRUE

\* calculateSchedule(options): the locals when the loop is left
calculateSchedulePlain(o) ==
    LET rate == calculateMonthlyRatePlain(o.loanAmount, o.interestRate, o.initialRepayment)
    IN  LoopPlain(LoopStart(o.loanAmount), o, rate, MaxIterations)

----------------------------------------------------------------------------
(* aggregateYearlySchedule(monthlySchedule), both services *)

\* the accumulator reset to the literal it was declared with
FreshYearFirst(y) ==
    [year |-> 1, interestPayment |-> 0, repaymentPayment |-> 0,
     totalPayment |-> 0, remainingBalance |-> 0]

\* currentYear = { year, interestPayment: 0, ... }
FreshYear(y) ==
    [year |-> y, interestPayment |-> 0, repaymentPayment |-> 0,
     totalPayment |-> 0, remainingBalance |-> 0]

\* the locals of aggregateYearlySchedule before forEach
AggregateStart ==
    [years |-> <<>>, currentYear |-> FreshYear(1)]

\* a year closing on the twelfth month only
YearClosesOnTwelfth(m, i, monthlySchedule) ==
    m.month % 12 = 0

\* if (m.month % 12 === 0 || index === monthlySchedule.length - 1), i = index + 1
YearCloses(m, i, monthlySchedule) ==
    m.month % 12 = 0 \/ i = Len(monthlySchedule)

\* currentYear after the four assignments of the callback, rounded service
Folded(currentYear, m) ==
    [year |-> currentYear.year,
     interestPayment |-> round(currentYear.interestPayment + m.interestPayment),
     repaymentPayment |-> round(currentYear.repaymentPayment + m.repaymentPayment),
     totalPayment |-> round(currentYear.totalPayment + m.totalPayment),
     remainingBalance |-> m.remainingBalance]

\* currentYear after the four assignments of the callback, plain service
FoldedPlain(currentYear, m) ==
    [year |-> currentYear.year,
     interestPayment |-> currentYear.interestPayment + m.interestPayment,
     repaymentPayment |-> currentYear.repaymentPayment + m.repaymentPayment,
     totalPayment |-> currentYear.totalPayment + m.totalPayment,
     remainingBalance |-> m.remainingBalance]

\* the callback of forEach on the entry of index i - 1
Callback(a, i, monthlySchedule, s) ==
    LET m == monthlySchedule[i]
        folded == IF s = "rounded"
                  THEN Folded(a.currentYear, m)
                  ELSE FoldedPlain(a.currentYear, m)
    IN  IF YearCloses(m, i, monthlySchedule)
        THEN [years |-> Append(a.years, folded),
              currentYear |-> FreshYear(folded.year + 1)]
        ELSE [years |-> a.years, currentYear |-> folded]

RECURSIVE ForEach(_, _, _, _, _)
\* the callbacks of forEach on the entries lo..hi, in order
ForEach(a, lo, hi, monthlySchedule, s) ==
    IF lo > hi
    THEN a
    ELSE IF lo = hi
         THEN Callback(a, lo, monthlySchedule, s)
         ELSE LET mid == (lo + hi) \div 2
                  firstHalf == {ForEach(a, lo, mid, monthlySchedule, s)}
              IN  CHOOSE t \in {ForEach(h, mid + 1, hi, monthlySchedule, s) : h \in firstHalf} : TRUE

aggregateYearlySchedule(monthlySchedule, s) ==
    ForEach(AggregateStart, 1, Len(monthlySchedule), monthlySchedule, s).years

----------------------------------------------------------------------------
(* EtfCalculatorService.calculateGrowth (etf-calculator.service.ts) *)

\* the resolution of monthlyReturnRate: a ratio num / RateDen
RateDen == 100000

\* floor(x * y) of two ratios over RateDen that are close to 1
FMul(x, y) ==
    y + ((x - RateDen) * y) \div RateDen

\* Math.pow(x, 12)
Pow12(x) ==
    LET x2 == FMul(x, x)
        x3 == FMul(x2, x)
        x6 == FMul(x3, x3)
    IN  FMul(x6, x6)

\* Math.pow(1 + annualReturnRate / 100, 1 / 12) - 1 in units of 1 / RateDen:
\* the largest m whose twelfth power of 1 + m does not exceed 1 + annual
Root12(annualReturnRate) ==
    LET target == RateDen + annualReturnRate * (RateDen \div 1000)
        low == IF annualReturnRate >= 0 THEN 0 ELSE target - RateDen
        high == IF annualReturnRate >= 0 THEN (target - RateDen) \div 12 ELSE 0
    IN  CHOOSE m \in low..high :
            Pow12(RateDen + m) <= target /\ Pow12(RateDen + m + 1) > target

\* annualReturnRate: -5 %, 0 %, 7 %
AnnualReturnRates == {-50, 0, 70}

\* initialBalance: 0, 0.50, 10.005, 10000
InitialBalances == {0, 500, 10005, 10000000}

\* monthlyContribution: 0, 0.004, 500
MonthlyContributions == {0, 4, 500000}

MaxYears == 3

GrowthInputs ==
    [initialBalance : InitialBalances, monthlyContribution : MonthlyContributions,
     annualReturnRate : AnnualReturnRates, years : -1..MaxYears]

\* const monthlyReturnRate = Math.pow(1 + annualReturnRate / 100, 1 / 12) - 1
monthlyReturnRate(o) ==
    [num |-> Root12(o.annualReturnRate), den |-> RateDen]

\* the initial balance taken as it is given
InitialBalanceUnrounded(o) ==
    o.initialBalance

\* let currentBalance = this.round(initialBalance)
InitialBalance(o) ==
    round(o.initialBalance)

\* const contribution = this.round(monthlyContribution)
Contribution(o) ==
    round(o.monthlyContribution)

\* const interestThisMonth = this.round(currentBalance * monthlyReturnRate)
InterestThisMonth(balance, r) ==
    round(Times(balance, r.num, r.den))

\* the outer loop stopping one year early
YearConditionStrict(g, o) ==
    g.year < o.years

\* for (let year = 1; year <= years; year++)
YearCondition(g, o) ==
    g.year <= o.years

\* the locals before the outer loop, the initial balance not counted as invested
GrowthStartNothingInvested(o) ==
    [schedule |-> <<>>,
     currentBalance |-> InitialBalance(o),
     totalInvested |-> 0,
     totalInterest |-> 0,
     year |-> 1]

\* the locals of calculateGrowth before the outer loop
GrowthStart(o) ==
    [schedule |-> <<>>,
     currentBalance |-> InitialBalance(o),
     totalInvested |-> round(o.initialBalance),
     totalInterest |-> 0,
     year |-> 1]

\* the locals of the body of the outer loop before the inner loop
YearStart(g) ==
    [currentBalance |-> g.currentBalance,
     interestEarnedThisYear |-> 0,
     investedThisYear |-> 0]

\* one pass of the inner loop that leaves the contribution out of the balance
MonthBodyNoContribution(y, o, r) ==
    LET interestThisMonth == InterestThisMonth(y.currentBalance, r)
        contribution == Contribution(o)
    IN  [interestEarnedThisYear |-> round(y.interestEarnedThisYear + interestThisMonth),
         currentBalance |-> round(y.currentBalance + interestThisMonth),
         investedThisYear |-> round(y.investedThisYear + contribution)]

\* one pass of the inner loop that takes the contribution off the balance
MonthBodyWithdraws(y, o, r) ==
    LET interestThisMonth == InterestThisMonth(y.currentBalance, r)
        contribution == Contribution(o)
    IN  [interestEarnedThisYear |-> round(y.interestEarnedThisYear + interestThisMonth),
         currentBalance |-> round(round(y.currentBalance + interestThisMonth) - contribution),
         investedThisYear |-> round(y.investedThisYear + contribution)]

\* one pass of the inner loop
MonthBody(y, o, r) ==
    LET interestThisMonth == InterestThisMonth(y.currentBalance, r)
        contribution == Contribution(o)
    IN  [interestEarnedThisYear |-> round(y.interestEarnedThisYear + interestThisMonth),
         currentBalance |-> round(round(y.currentBalance + interestThisMonth) + contribution),
         investedThisYear |-> round(y.investedThisYear + contribution)]

RECURSIVE Months(_, _, _, _)
\* for (let month = 1; month <= 12; month++), from month m on
Months(y, o, r, m) ==
    IF m <= 12
    THEN LET pass == {MonthBody(y, o, r)}
         IN  CHOOSE t \in {Months(z, o, r, m + 1) : z \in pass} : TRUE
    ELSE y

\* one pass of the outer loop
YearBody(g, o, r) ==
    LET y == Months(YearStart(g), o, r, 1)
        totalInvested == round(g.totalInvested + y.investedThisYear)
        totalInterest == round(g.totalInterest + y.interestEarnedThisYear)
    IN  [schedule |-> Append(g.schedule,
            [year |-> g.year,
             startBalance |-> g.currentBalance,
             investedThisYear |-> y.investedThisYear,
             interestEarned |-> y.interestEarnedThisYear,
             endBalance |-> y.currentBalance,
             totalInvested |-> totalInvested,
             totalInterest |-> totalInterest]),
         currentBalance |-> y.currentBalance,
         totalInvested |-> totalInvested,
         totalInterest |-> totalInterest,
         year |-> g.year + 1]

RECURSIVE Years(_, _, _)
\* the outer loop
Years(g, o, r) ==
    IF YearCondition(g, o)
    THEN LET pass == {YearBody(g, o, r)}
         IN  CHOOSE t \in {Years(h, o, r) : h \in pass} : TRUE
    ELSE g

calculateGrowth(o) ==
    LET rates == {monthlyReturnRate(o)}
    IN  CHOOSE t \in {Years(GrowthStart(o), o, r).schedule : r \in rates} : TRUE

----------------------------------------------------------------------------
(* App.vue: creditResults and etfResults compute one scenario *)

\* const monthlyRate = CreditCalculatorService.calculateMonthlyRate(...)
MonthlyRate(s, o) ==
    /\ pc = "idle"
    /\ pc' = "rated"
    /\ svc' = s
    /\ options' = o
    /\ monthlyRate' =
           IF s = "rounded"
           THEN calculateMonthlyRate(o.loanAmount, o.interestRate, o.initialRepayment)
           ELSE calculateMonthlyRatePlain(o.loanAmount, o.interestRate, o.initialRepayment)
    /\ UNCHANGED <<result, month, remainingBalance, years, etfOptions, schedule>>

\* const schedule = CreditCalculatorService.calculateSchedule({ ...calc })
Schedule ==
    /\ pc = "rated"
    /\ \E s \in {IF svc = "rounded"
                  THEN calculateSchedule(options)
                  ELSE calculateSchedulePlain(options)} :
           /\ result' = s.result
           /\ month' = s.month
           /\ remainingBalance' = s.remainingBalance
           /\ pc' = IF LoopCondition(s) THEN "looping" ELSE "scheduled"
    /\ UNCHANGED <<svc, options, monthlyRate, years, etfOptions, schedule>>

\* const yearlySchedule = CreditCalculatorService.aggregateYearlySchedule(schedule)
Aggregate ==
    /\ pc = "scheduled"
    /\ pc' = "aggregated"
    /\ years' = aggregateYearlySchedule(result, svc)
    /\ UNCHANGED <<svc, options, monthlyRate, result, month, remainingBalance,
                   etfOptions, schedule>>

\* const schedule = EtfCalculatorService.calculateGrowth({ ...calc })
Growth(o) ==
    /\ pc = "idle"
    /\ pc' = "grown"
    /\ etfOptions' = o
    /\ schedule' = calculateGrowth(o)
    /\ UNCHANGED <<svc, options, monthlyRate, result, month, remainingBalance, years>>

Init ==
    /\ pc = "idle"
    /\ svc = "rounded"
    /\ options = NoOptions
    /\ monthlyRate = 0
    /\ result = <<>>
    /\ month = 1
    /\ remainingBalance = 0
    /\ years = <<>>
    /\ etfOptions = NoEtfOptions
    /\ schedule = <<>>

Next ==
    \/ \E s \in Services, o \in LoanInputs : MonthlyRate(s, o)
    \/ Schedule
    \/ Aggregate
    \/ \E o \in GrowthInputs : Growth(o)

Spec == Init /\ [][Next]_vars

----------------------------------------------------------------------------
(* Amortization schedule: what the claims speak of *)

\* calculateSchedule has been called
Called ==
    pc \in {"looping", "scheduled", "aggregated"}

\* calculateSchedule has returned
Returned ==
    pc \in {"scheduled", "aggregated"}

\* the documented input domain of the amortization engine
DocumentedLoan ==
    /\ options.loanAmount > 0
    /\ options.interestRate >= 0
    /\ options.initialRepayment >= 0

\* the balance calculateSchedule starts from
StartBalance ==
    IF svc = "rounded" THEN round(options.loanAmount) ELSE options.loanAmount

\* one month's interest on the full principal, as the first period computes it
FirstInterest ==
    IF svc = "rounded"
    THEN InterestPayment(StartBalance, options)
    ELSE InterestPaymentPlain(StartBalance, options)

LastEntry == result[Len(result)]

\* the fixed payment exceeds one month's interest on the full principal
PaymentExceedsInterest ==
    /\ options.loanAmount > 0
    /\ options.interestRate >= 0
    /\ options.initialRepayment > 0
    /\ monthlyRate > FirstInterest

\* all but two of the 1200 months, each repaying what the first month leaves
\* of the payment after its interest, cover the starting balance
FirstRepaymentsCover ==
    /\ StartBalance > 0
    /\ (maxMonths - 2) * (monthlyRate - FirstInterest) >= StartBalance

\* the fixed payment is at most the interest of every period
PaymentNeverExceedsInterest ==
    /\ options.loanAmount > 0
    /\ monthlyRate <= FirstInterest
    /\ \A k \in 1..Len(result) : monthlyRate <= result[k].interestPayment

C2Original ==
    (Returned /\ DocumentedLoan) =>
        \A k \in 1..(Len(result) - 1) :
            result[k + 1].remainingBalance <= result[k].remainingBalance

\* C3 as stated: a loan with principal > 0 whose payment never exceeds the
\* interest gets exactly 1200 entries, months 1..1200, the last one with a
\* non-zero balance; and no schedule has more than 1200 entries.
C3Original ==
    /\ Len(result) <= maxMonths
    /\ (Returned /\ PaymentNeverExceedsInterest) =>
           /\ Len(result) = maxMonths
           /\ \A k \in 1..Len(result) : result[k].month = k
           /\ LastEntry.remainingBalance # 0

\* C3 amended: the same, for a loan whose starting balance (the principal,
\* rounded to the cent by the rounded service) is > 0.
C3Ceiling ==
    /\ Len(result) <= maxMonths
    /\ (Returned /\ PaymentNeverExceedsInterest /\ StartBalance > 0) =>
           /\ Len(result) = maxMonths
           /\ \A k \in 1..Len(result) : result[k].month = k
           /\ LastEntry.remainingBalance # 0

\* a non-amortizing loan stopped by the ceiling
C3Witness ==
    /\ Returned
    /\ PaymentNeverExceedsInterest
    /\ StartBalance > 0
    /\ Len(result) = maxMonths
    /\ LastEntry.remainingBalance > 0

\* the months of the schedule whose year field is y
MonthsOfYear(y) ==
    {k \in 1..Len(result) : result[k].year = y}

RECURSIVE SumField(_, _)
\* the plain sum of a field over a set of months
SumField(months, field) ==
    IF months = {}
    THEN 0
    ELSE LET k == CHOOSE x \in months : TRUE
         IN  result[k][field] + SumField(months \ {k}, field)

\* C4: every year of the monthly schedule has exactly one yearly entry, whose
\* interestPayment, repaymentPayment and totalPayment are the plain sums of
\* those fields over the months of that year.
C4YearlySums ==
    pc = "aggregated" =>
        \A y \in {result[k].year : k \in 1..Len(result)} :
            /\ Cardinality({j \in 1..Len(years) : years[j].year = y}) = 1
            /\ \A j \in 1..Len(years) :
                   years[j].year = y =>
                       /\ years[j].interestPayment = SumField(MonthsOfYear(y), "interestPayment")
                       /\ years[j].repaymentPayment = SumField(MonthsOfYear(y), "repaymentPayment")
                       /\ years[j].totalPayment = SumField(MonthsOfYear(y), "totalPayment")

\* an aggregated schedule of the rounded service with a partial last year
C4Witness ==
    /\ pc = "aggregated"
    /\ svc = "rounded"
    /\ Len(result) > 12
    /\ Len(result) % 12 # 0
    /\ Len(years) > 1
    /\ years[1].interestPayment > 0

\* C10 as stated: for 250000 at 3.5 % with 2.0 % amortization the monthly
\* rate is 1145.83 and the first entry of the schedule has interestPayment
\* 729.17, repaymentPayment 416.66 and remainingBalance 249583.34.
C10Original ==
    (Returned /\ options = DefaultCalculation) =>
        /\ monthlyRate = 1145830
        /\ Len(result) >= 1
        /\ result[1].interestPayment = 729170
        /\ result[1].repaymentPayment = 416660
        /\ result[1].remainingBalance = 249583340

\* a whole number of cents
WholeCents(value) ==
    value % 10 = 0

\* C11 as stated: for principal > 0 and rates >= 0 the monthly rate and the
\* four monetary fields of every entry of the schedule are whole numbers of
\* cents, in the service the application imports as in the rounded one.
C11Original ==
    (Returned /\ DocumentedLoan) =>
        /\ WholeCents(monthlyRate)
        /\ \A k \in 1..Len(result) :
               /\ WholeCents(result[k].interestPayment)
               /\ WholeCents(result[k].repaymentPayment)
               /\ WholeCents(result[k].totalPayment)
               /\ WholeCents(result[k].remainingBalance)

\* C12 as stated: for principal > 0 and rates >= 0 the schedule has at least
\* one entry.
C12Original ==
    (Returned /\ DocumentedLoan) => Len(result) >= 1

\* C12 amended: for rates >= 0 and a principal whose starting balance (the
\* principal, rounded to the cent by the rounded service) is > 0 the schedule
\* has at least one entry, that of month 1.
C12NonEmpty ==
    (Returned /\ DocumentedLoan /\ StartBalance > 0) =>
        /\ Len(result) >= 1
        /\ result[1].month = 1

\* a loan of a cent or more with its first entry
C12Witness ==
    /\ Returned
    /\ DocumentedLoan
    /\ StartBalance > 0
    /\ Len(result) >= 1
    /\ result[1].month = 1

\* C13: for a principal of 0 the schedule is empty whatever the rates, and
\* so is its yearly aggregation.
C13Empty ==
    (Called /\ options.loanAmount = 0) =>
        /\ Returned
        /\ result = <<>>
        /\ pc = "aggregated" => years = <<>>

\* the empty schedule of a principal of 0 at 3.6 %, aggregated
C13Witness ==
    /\ pc = "aggregated"
    /\ options.loanAmount = 0
    /\ options.interestRate > 0
    /\ result = <<>>
    /\ years = <<>>

\* the balance the k-th period starts from
BalanceBefore(k) ==
    IF k = 1 THEN StartBalance ELSE result[k - 1].remainingBalance

\* C14: for every input, with rates of either sign, the remainingBalance of
\* every entry is >= 0 and no repayment exceeds the balance it is taken from.
C14Clamped ==
    Returned =>
        \A k \in 1..Len(result) :
            /\ result[k].remainingBalance >= 0
            /\ result[k].repaymentPayment <= BalanceBefore(k)

\* a schedule at a negative interest rate whose last period the clamp cut
\* down to the balance that was left
C14Witness ==
    /\ Returned
    /\ svc = "rounded"
    /\ options.interestRate < 0
    /\ Len(result) > 1
    /\ LastEntry.remainingBalance = 0
    /\ LastEntry.repaymentPayment = BalanceBefore(Len(result))
    /\ LastEntry.repaymentPayment < round(monthlyRate - LastEntry.interestPayment)

\* the last month of the schedule whose year field is y
LastMonthOfYear(y) ==
    CHOOSE k \in MonthsOfYear(y) : \A j \in MonthsOfYear(y) : j <= k

\* C15: a schedule of n entries (months 1..n, year = ceil(month / 12)) is
\* aggregated into ceil(n / 12) entries; the k-th has year k, folds the months
\* whose year field is k (12 of them, n - 12 * (k - 1) in the last year: its
\* totalPayment is their sum), and has the remainingBalance of the last of
\* them.
C15Years ==
    pc = "aggregated" =>
        /\ \A i \in 1..Len(result) :
               result[i].month = i /\ result[i].year = YearOfMonth(i)
        /\ Len(years) = (Len(result) + 11) \div 12
        /\ \A k \in 1..Len(years) :
               /\ years[k].year = k
               /\ Cardinality(MonthsOfYear(k)) =
                      IF k < Len(years) THEN 12 ELSE Len(result) - 12 * (k - 1)
               /\ years[k].totalPayment = SumField(MonthsOfYear(k), "totalPayment")
               /\ years[k].remainingBalance = result[LastMonthOfYear(k)].remainingBalance

\* a schedule of several years whose last year is a partial one, aggregated
\* by the service the application imports
C15Witness ==
    /\ pc = "aggregated"
    /\ svc = "plain"
    /\ Len(years) >= 3
    /\ Len(result) % 12 # 0
    /\ years[Len(years)].year = Len(years)
    /\ years[Len(years)].remainingBalance = LastEntry.remainingBalance
    /\ years[1].remainingBalance = result[12].remainingBalance
    /\ years[1].remainingBalance # years[2].remainingBalance

\* the repayment of the k-th period before the clamp
Unclamped(k) ==
    IF svc = "rounded"
    THEN round(monthlyRate - result[k].interestPayment)
    ELSE monthlyRate - result[k].interestPayment

\* the clamp fired in the k-th period
ClampFired(k) ==
    BalanceBefore(k) < Unclamped(k)

RECURSIVE SumRepayments(_, _)
\* the sum of repaymentPayment over the entries lo..hi
SumRepayments(lo, hi) ==
    IF lo > hi
    THEN 0
    ELSE IF lo = hi
         THEN result[lo].repaymentPayment
         ELSE SumRepayments(lo, (lo + hi) \div 2)
                  + SumRepayments((lo + hi) \div 2 + 1, hi)

\* C17: in a schedule of the rounded service the remainingBalance of every
\* entry is the principal rounded to the cent minus the repayments up to and
\* including that entry (each entry takes its repayment off the balance the
\* entry before left, the first off the rounded principal, which says the
\* same of every prefix), and the repayments of a schedule that ends with a
\* balance of 0 sum to the rounded principal.
C17Conserved ==
    (Returned /\ svc = "rounded") =>
        /\ \A k \in 1..Len(result) :
               result[k].remainingBalance =
                   (IF k = 1 THEN round(options.loanAmount)
                             ELSE result[k - 1].remainingBalance)
                       - result[k].repaymentPayment
        /\ Len(result) >= 1 =>
               LastEntry.remainingBalance =
                   round(options.loanAmount) - SumRepayments(1, Len(result))
        /\ (Len(result) >= 1 /\ LastEntry.remainingBalance = 0) =>
               SumRepayments(1, Len(result)) = round(options.loanAmount)

\* a loan with interest whose principal is no whole number of cents, repaid
\* in full over more than a year
C17Witness ==
    /\ Returned
    /\ svc = "rounded"
    /\ options.loanAmount % 10 # 0
    /\ options.interestRate > 0
    /\ Len(result) > 12
    /\ LastEntry.remainingBalance = 0
    /\ SumRepayments(1, Len(result)) = round(options.loanAmount)
    /\ SumRepayments(1, Len(result)) # options.loanAmount

----------------------------------------------------------------------------
(* Growth schedule: what the claims speak of *)

\* the inputs for which the growth claims promise a balance that does not fall
GrowingInput ==
    /\ etfOptions.monthlyContribution >= 0
    /\ etfOptions.annualReturnRate >= 0
    /\ etfOptions.initialBalance >= 0

\* C5 as stated: for contributions, return rate and initial balance >= 0 the
\* endBalance is strictly increasing from each year to the next.
C5Original ==
    (pc = "grown" /\ GrowingInput) =>
        \A k \in 1..(Len(schedule) - 1) :
            schedule[k].endBalance < schedule[k + 1].endBalance

\* C5 amended: the endBalance is strictly increasing from each year to the
\* next when, moreover, the monthly contribution rounded to the cent is > 0.
C5StrictlyIncreasing ==
    (pc = "grown" /\ GrowingInput /\ Contribution(etfOptions) > 0) =>
        \A k \in 1..(Len(schedule) - 1) :
            schedule[k].endBalance < schedule[k + 1].endBalance

\* several years of growth with a contribution and no return
C5Witness ==
    /\ pc = "grown"
    /\ GrowingInput
    /\ Contribution(etfOptions) > 0
    /\ etfOptions.annualReturnRate = 0
    /\ Len(schedule) >= 2
    /\ schedule[1].endBalance < schedule[2].endBalance

\* C6: for contributions, return rate and initial balance >= 0 the endBalance
\* never decreases from one year to the next, and no year ends below the
\* balance it started with.
C6NonDecreasing ==
    (pc = "grown" /\ GrowingInput) =>
        /\ \A k \in 1..(Len(schedule) - 1) :
               schedule[k].endBalance <= schedule[k + 1].endBalance
        /\ \A k \in 1..Len(schedule) :
               schedule[k].startBalance <= schedule[k].endBalance

\* several years in which the balance stays what it was: nothing is
\* contributed and the interest rounds to nothing
C6Witness ==
    /\ pc = "grown"
    /\ GrowingInput
    /\ Len(schedule) >= 2
    /\ schedule[1].startBalance > 0
    /\ schedule[1].endBalance = schedule[1].startBalance
    /\ schedule[2].endBalance = schedule[1].endBalance

\* C7: calculateGrowth returns years entries, the k-th of year k, and no
\* entry when years <= 0.
C7Entries ==
    pc = "grown" =>
        /\ Len(schedule) = Max0(etfOptions.years)
        /\ \A k \in 1..Len(schedule) : schedule[k].year = k

\* a growth schedule of several years
C7Witness ==
    /\ pc = "grown"
    /\ etfOptions.years >= 2
    /\ Len(schedule) = etfOptions.years
    /\ schedule[Len(schedule)].year = etfOptions.years

\* C8: each year starts with the balance the year before ended with, and the
\* first year starts with the initial balance rounded to the cent.
C8Chained ==
    pc = "grown" =>
        /\ \A k \in 1..(Len(schedule) - 1) :
               schedule[k].endBalance = schedule[k + 1].startBalance
        /\ Len(schedule) >= 1 =>
               schedule[1].startBalance = round(etfOptions.initialBalance)

\* several years grown from an initial balance that is no whole number of cents
C8Witness ==
    /\ pc = "grown"
    /\ Len(schedule) >= 2
    /\ etfOptions.initialBalance % 10 # 0
    /\ schedule[1].startBalance # etfOptions.initialBalance
    /\ schedule[1].endBalance # schedule[1].startBalance
    /\ schedule[2].startBalance = schedule[1].endBalance

\* C18: in every entry of the growth schedule endBalance is totalInvested +
\* totalInterest and also startBalance + investedThisYear + interestEarned,
\* and totalInvested after year N is the rounded initial balance plus 12 * N
\* times the rounded monthly contribution.
C18Conserved ==
    pc = "grown" =>
        \A k \in 1..Len(schedule) :
            /\ schedule[k].endBalance =
                   schedule[k].totalInvested + schedule[k].totalInterest
            /\ schedule[k].endBalance =
                   schedule[k].startBalance + schedule[k].investedThisYear
                       + schedule[k].interestEarned
            /\ schedule[k].totalInvested =
                   round(etfOptions.initialBalance)
                       + 12 * k * round(etfOptions.monthlyContribution)

\* several years grown at 7 % from an initial balance and a contribution
C18Witness ==
    /\ pc = "grown"
    /\ Len(schedule) >= 2
    /\ etfOptions.initialBalance > 0
    /\ etfOptions.monthlyContribution > 0
    /\ etfOptions.annualReturnRate > 0
    /\ schedule[2].investedThisYear > 0
    /\ schedule[2].interestEarned > 0
    /\ schedule[2].totalInterest > schedule[2].interestEarned
    /\ schedule[2].endBalance = schedule[2].totalInvested + schedule[2].totalInterest

====
